---------------------------- MODULE Spec2Model ----------------------------
(***************************************************************************)
(* Model of the Portainer MCP server's construction and tool registration  *)
(* (src/internal/mcp/server.go): NewPortainerMCPServer with its functional *)
(* options, addToolIfExists, and the dispatch of a tool call through the   *)
(* registry that addToolIfExists fills.                                    *)
(***************************************************************************)
EXTENDS Naturals, Sequences, FiniteSets

VARIABLES
    phase,      \* "init" before NewPortainerMCPServer, then "running" or "failed"
    server,     \* the *PortainerMCPServer returned (NilServer when none)
    err,        \* the error returned by NewPortainerMCPServer ("nil" when none)
    registry,   \* s.srv's tool table: the bindings made by s.srv.AddTool
    logs,       \* number of lines written by log.Printf in addToolIfExists
    op,         \* the most recent call, with its inputs and its outcome
    regs        \* per tool name of the catalog, the handler addToolIfExists was
                \* last called with for it (NoHandler when it never was)

vars == <<phase, server, err, registry, logs, op, regs>>

-----------------------------------------------------------------------------
(* Bounds of the model *)

\* addToolIfExists calls that find no tool (each writes one log line)
MaxLogs == 1
\* length of the options list passed to NewPortainerMCPServer
MaxOptions == 2

-----------------------------------------------------------------------------
(* Constants of the program *)

\* "1.0", as <<major, minor>>
MinimumToolsVersion == <<1, 0>>

SupportedPortainerVersion == "2.31.2"

-----------------------------------------------------------------------------
(* Inputs *)

\* Tool names a catalog may declare
ToolNames == {"listEnvironmentTags", "createEnvironmentTag", "dockerProxy", "kubernetesProxy"}

\* Names the binary has a handler for; "getSettings" is in no catalog below
KnownNames == ToolNames \cup {"getSettings"}

MutatingNames == {"createEnvironmentTag"}

ProxyNames == {"dockerProxy", "kubernetesProxy"}

Handlers == {"h1", "h2"}

NoHandler == "none"

Methods == {"GET", "POST"}

NoMethod == "absent"

\* The arguments of a call: the fields present, and the value of "method"
ArgSets ==
    {[fields |-> {}, method |-> NoMethod],
     [fields |-> {"name"}, method |-> NoMethod],
     [fields |-> {"path"}, method |-> NoMethod],
     [fields |-> {"method"}, method |-> "GET"]} \cup
    {[fields |-> {"method", "path"}, method |-> m] : m \in Methods}

\* inputSchema of a tool: the fields it requires
Required(n) ==
    IF n \in ProxyNames THEN {"method", "path"}
    ELSE IF n \in MutatingNames THEN {"name"}
    ELSE {}

ToolDefinition(n) ==
    [name |-> n, mutating |-> n \in MutatingNames, required |-> Required(n)]

\* Versions a tools.yaml file may declare, as <<major, minor>>
Versions == {<<0, 9>>, <<1, 0>>, <<1, 1>>}

CatalogFull == ToolNames

CatalogPartial == {"listEnvironmentTags", "dockerProxy"}

\* The tools.yaml documents: version, whether an entry is malformed, tool names
Sources == [version : Versions, malformed : BOOLEAN, names : {CatalogFull, CatalogPartial}]

\* What the Portainer backend answers to GetVersion
Backends ==
    {[up |-> FALSE, version |-> ""]} \cup
    {[up |-> TRUE, version |-> v] : v \in {"2.31.2", "2.31.1", "2.31.20", "2.32.0"}}

\* A ServerOption: WithClient(c) with c non-nil, WithReadOnly(b), WithDisableVersionCheck(b)
Options ==
    {[kind |-> "WithClient", flag |-> TRUE]} \cup
    [kind : {"WithReadOnly", "WithDisableVersionCheck"}, flag : BOOLEAN]

OptionLists == UNION {[1..n -> Options] : n \in 0..MaxOptions}

-----------------------------------------------------------------------------
(* serverOptions and the functional options *)

\* opts := &serverOptions{}
DefaultOptions == [client |-> "nil", readOnly |-> FALSE, disableVersionCheck |-> FALSE]

WithClient(opts) == [opts EXCEPT !.client = "custom"]

WithReadOnly(readOnly, opts) == [opts EXCEPT !.readOnly = readOnly]

WithDisableVersionCheck(disable, opts) == [opts EXCEPT !.disableVersionCheck = disable]

ApplyOption(option, opts) ==
    CASE option.kind = "WithClient" -> WithClient(opts)
      [] option.kind = "WithReadOnly" -> WithReadOnly(option.flag, opts)
      [] option.kind = "WithDisableVersionCheck" -> WithDisableVersionCheck(option.flag, opts)

\* for _, option := range options { option(opts) }
RECURSIVE ApplyOptions(_, _)
ApplyOptions(options, opts) ==
    IF options = <<>> THEN opts
    ELSE ApplyOptions(Tail(options), ApplyOption(Head(options), opts))

-----------------------------------------------------------------------------
(* The collaborators NewPortainerMCPServer calls *)

VersionLess(a, b) == a[1] < b[1] \/ (a[1] = b[1] /\ a[2] < b[2])

NoTools == [n \in {} |-> ToolDefinition(n)]

\* toolgen.LoadToolsFromYAML(toolsPath, minimumVersion): the map name -> tool, or
\* an error when the file's version is below the minimum or an entry is malformed
LoadToolsFromYAML(source, minimumVersion) ==
    IF VersionLess(source.version, minimumVersion) \/ source.malformed
    THEN [err |-> TRUE, tools |-> NoTools]
    ELSE [err |-> FALSE, tools |-> [n \in source.names |-> ToolDefinition(n)]]

\* portainerClient.GetVersion(): (version, err)
GetVersion(backend) == [err |-> ~backend.up, version |-> backend.version]

-----------------------------------------------------------------------------
(* NewPortainerMCPServer *)

NilServer == [nil |-> TRUE, cli |-> "nil", tools |-> NoTools, readOnly |-> FALSE]

ErrNil == "nil"
ErrLoad == "failed to load tools"
ErrGetVersion == "failed to get Portainer server version"
ErrUnsupported == "unsupported Portainer server version"

\* if opts.client != nil { portainerClient = opts.client } else { NewPortainerClient(...) }
ChooseClient(opts) ==
    IF opts.client # "nil"
    THEN [cli |-> opts.client, calls |-> <<>>]
    ELSE [cli |-> "default", calls |-> <<"NewPortainerClient">>]

\* Mutant: the version check runs whatever disableVersionCheck says
VersionCheck_Always(opts, backend) ==
    LET v == GetVersion(backend)
    IN  IF v.err THEN [err |-> ErrGetVersion, calls |-> <<"GetVersion">>]
        ELSE IF v.version # SupportedPortainerVersion
             THEN [err |-> ErrUnsupported, calls |-> <<"GetVersion">>]
             ELSE [err |-> ErrNil, calls |-> <<"GetVersion">>]

\* Mutant: a failed GetVersion is let through (its error is dropped)
VersionCheck_ErrDropped(opts, backend) ==
    IF ~opts.disableVersionCheck
    THEN LET v == GetVersion(backend)
         IN  IF ~v.err /\ v.version # SupportedPortainerVersion
             THEN [err |-> ErrUnsupported, calls |-> <<"GetVersion">>]
             ELSE [err |-> ErrNil, calls |-> <<"GetVersion">>]
    ELSE [err |-> ErrNil, calls |-> <<>>]

\* if !opts.disableVersionCheck { version, err := GetVersion(); ... }
VersionCheck(opts, backend) ==
    IF ~opts.disableVersionCheck
    THEN LET v == GetVersion(backend)
         IN  IF v.err THEN [err |-> ErrGetVersion, calls |-> <<"GetVersion">>]
             ELSE IF v.version # SupportedPortainerVersion
                  THEN [err |-> ErrUnsupported, calls |-> <<"GetVersion">>]
                  ELSE [err |-> ErrNil, calls |-> <<"GetVersion">>]
    ELSE [err |-> ErrNil, calls |-> <<>>]

\* Mutant: the error of LoadToolsFromYAML is ignored and construction goes on
NewPortainerMCPServer_LoadErrIgnored(source, options, backend) ==
    LET opts == ApplyOptions(options, DefaultOptions)
        loaded == LoadToolsFromYAML(source, MinimumToolsVersion)
        client == ChooseClient(opts)
        check == VersionCheck(opts, backend)
        calls == <<"LoadToolsFromYAML">> \o client.calls \o check.calls
    IN  IF check.err # ErrNil
        THEN [server |-> NilServer, err |-> check.err, calls |-> calls, opts |-> opts]
        ELSE [server |-> [nil |-> FALSE, cli |-> client.cli, tools |-> loaded.tools,
                          readOnly |-> opts.readOnly],
              err |-> ErrNil, calls |-> calls, opts |-> opts]

\* Mutant: the backend version is checked before the tools are loaded
NewPortainerMCPServer_VersionFirst(source, options, backend) ==
    LET opts == ApplyOptions(options, DefaultOptions)
        client == ChooseClient(opts)
        check == VersionCheck(opts, backend)
        loaded == LoadToolsFromYAML(source, MinimumToolsVersion)
    IN  IF check.err # ErrNil
        THEN [server |-> NilServer, err |-> check.err,
              calls |-> client.calls \o check.calls, opts |-> opts]
        ELSE IF loaded.err
        THEN [server |-> NilServer, err |-> ErrLoad,
              calls |-> client.calls \o check.calls \o <<"LoadToolsFromYAML">>, opts |-> opts]
        ELSE [server |-> [nil |-> FALSE, cli |-> client.cli, tools |-> loaded.tools,
                          readOnly |-> opts.readOnly],
              err |-> ErrNil,
              calls |-> client.calls \o check.calls \o <<"LoadToolsFromYAML">>, opts |-> opts]

\* The result of NewPortainerMCPServer(serverURL, token, toolsPath, options...):
\* the server and the error returned, the calls made to the collaborators in
\* order, and the serverOptions the options produced
NewPortainerMCPServer(source, options, backend) ==
    LET opts == ApplyOptions(options, DefaultOptions)
        loaded == LoadToolsFromYAML(source, MinimumToolsVersion)
    IN  IF loaded.err
        THEN [server |-> NilServer, err |-> ErrLoad,
              calls |-> <<"LoadToolsFromYAML">>, opts |-> opts]
        ELSE LET client == ChooseClient(opts)
                 check == VersionCheck(opts, backend)
                 calls == <<"LoadToolsFromYAML">> \o client.calls \o check.calls
             IN  IF check.err # ErrNil
                 THEN [server |-> NilServer, err |-> check.err, calls |-> calls, opts |-> opts]
                 ELSE [server |-> [nil |-> FALSE, cli |-> client.cli, tools |-> loaded.tools,
                                   readOnly |-> opts.readOnly],
                       err |-> ErrNil, calls |-> calls, opts |-> opts]

-----------------------------------------------------------------------------
(* The tool table of s.srv and addToolIfExists *)

Bound(reg, name) == \E b \in reg : b.name = name

Binding(reg, name) == CHOOSE b \in reg : b.name = name

\* s.srv.AddTool(tool, handler): tools[tool.Name] = {tool, handler}
AddTool(reg, tool, handler) ==
    {b \in reg : b.name # tool.name} \cup
    {[name |-> tool.name, tool |-> tool, handler |-> handler]}

\* Mutant: a tool that is not in s.tools is registered all the same
addToolIfExists_BindAbsent(s, reg, nlogs, toolName, handler) ==
    IF toolName \in DOMAIN s.tools
    THEN [registry |-> AddTool(reg, s.tools[toolName], handler), logs |-> nlogs]
    ELSE [registry |-> AddTool(reg, ToolDefinition(toolName), handler), logs |-> nlogs + 1]

\* Mutant: the binding is added beside the one the name already has
addToolIfExists_Append(s, reg, nlogs, toolName, handler) ==
    IF toolName \in DOMAIN s.tools
    THEN [registry |-> reg \cup {[name |-> toolName, tool |-> s.tools[toolName],
                                  handler |-> handler]},
          logs |-> nlogs]
    ELSE [registry |-> reg, logs |-> nlogs + 1]

\* Mutant: a name that is already bound keeps its first handler
addToolIfExists_FirstWins(s, reg, nlogs, toolName, handler) ==
    IF toolName \in DOMAIN s.tools
    THEN [registry |-> IF Bound(reg, toolName) THEN reg
                       ELSE AddTool(reg, s.tools[toolName], handler),
          logs |-> nlogs]
    ELSE [registry |-> reg, logs |-> nlogs + 1]

\* func (s *PortainerMCPServer) addToolIfExists(toolName, handler): the tool table
\* and the log after the call
addToolIfExists(s, reg, nlogs, toolName, handler) ==
    IF toolName \in DOMAIN s.tools
    THEN [registry |-> AddTool(reg, s.tools[toolName], handler), logs |-> nlogs]
    ELSE [registry |-> reg, logs |-> nlogs + 1]

-----------------------------------------------------------------------------
(* Dispatch of a call through the tool table *)

ProxyMethods == {"ProxyDockerRequest", "ProxyKubernetesRequest"}

\* The PortainerClient method the handler of a tool calls
BackendMethod(name) ==
    CASE name = "dockerProxy" -> "ProxyDockerRequest"
      [] name = "kubernetesProxy" -> "ProxyKubernetesRequest"
      [] name = "createEnvironmentTag" -> "CreateEnvironmentTag"
      [] name = "listEnvironmentTags" -> "GetEnvironmentTags"
      [] OTHER -> "GetSettings"

MatchesSchema(args, tool) == tool.required \subseteq args.fields

\* AccessGuard.isAllowed
isAllowed(readOnly, mutating) == ~(readOnly /\ mutating)

NotInvoked(result) == [result |-> result, handler |-> NoHandler, backend |-> "none"]

\* Mutant: the handler runs before the arguments are validated
dispatch_HandlerFirst(s, reg, name, args, upstream) ==
    IF ~Bound(reg, name) THEN NotInvoked("UnknownTool")
    ELSE LET b == Binding(reg, name)
         IN  [result |-> IF ~MatchesSchema(args, b.tool) THEN "InvalidArguments"
                         ELSE IF upstream = "ok" THEN "Success" ELSE "HandlerFailure",
              handler |-> b.handler, backend |-> BackendMethod(name)]

\* Mutant: the proxy bridge forwards whatever the method is
dispatch_ProxyUnguarded(s, reg, name, args, upstream) ==
    IF ~Bound(reg, name) THEN NotInvoked("UnknownTool")
    ELSE LET b == Binding(reg, name)
         IN  IF ~MatchesSchema(args, b.tool) THEN NotInvoked("InvalidArguments")
             ELSE [result |-> IF upstream = "ok" THEN "Success"
                              ELSE IF name \in ProxyNames THEN "UpstreamUnreachable"
                              ELSE "HandlerFailure",
                   handler |-> b.handler, backend |-> BackendMethod(name)]

\* dispatch(CallRequest): lookup, validation against inputSchema, the per-call
\* access check of the proxy bridge, then the bound handler and its backend call
dispatch(s, reg, name, args, upstream) ==
    IF ~Bound(reg, name) THEN NotInvoked("UnknownTool")
    ELSE LET b == Binding(reg, name)
         IN  IF ~MatchesSchema(args, b.tool) THEN NotInvoked("InvalidArguments")
             ELSE IF name \in ProxyNames /\ ~isAllowed(s.readOnly, args.method # "GET")
             THEN NotInvoked("UnknownTool")
             ELSE [result |-> IF upstream = "ok" THEN "Success"
                              ELSE IF name \in ProxyNames THEN "UpstreamUnreachable"
                              ELSE "HandlerFailure",
                   handler |-> b.handler, backend |-> BackendMethod(name)]

-----------------------------------------------------------------------------
(* The state machine *)

Init ==
    /\ phase = "init"
    /\ server = NilServer
    /\ err = ErrNil
    /\ registry = {}
    /\ logs = 0
    /\ op = [kind |-> "none"]
    /\ regs = [n \in KnownNames |-> NoHandler]

\* main calls NewPortainerMCPServer once; an error ends the process
Construct ==
    /\ phase = "init"
    /\ \E source \in Sources, options \in OptionLists, backend \in Backends :
         LET r == NewPortainerMCPServer(source, options, backend)
         IN  /\ server' = r.server
             /\ err' = r.err
             /\ phase' = IF r.err = ErrNil THEN "running" ELSE "failed"
             /\ op' = [kind |-> "new", source |-> source, opts |-> r.opts,
                       backend |-> backend, calls |-> r.calls]
    /\ UNCHANGED <<registry, logs, regs>>

\* s.addToolIfExists(toolName, handler)
Register ==
    /\ phase = "running"
    /\ \E toolName \in KnownNames, handler \in Handlers :
         /\ toolName \in DOMAIN server.tools \/ logs < MaxLogs
         /\ LET r == addToolIfExists(server, registry, logs, toolName, handler)
            IN  /\ registry' = r.registry
                /\ logs' = r.logs
         /\ op' = [kind |-> "addToolIfExists", name |-> toolName, handler |-> handler,
                   previous |-> regs[toolName]]
         /\ regs' = IF toolName \in DOMAIN server.tools
                    THEN [regs EXCEPT ![toolName] = handler]
                    ELSE regs
    /\ UNCHANGED <<phase, server, err>>

\* an incoming tool call
Call ==
    /\ phase = "running"
    /\ \E name \in KnownNames, args \in ArgSets, upstream \in {"ok", "down"} :
         LET r == dispatch(server, registry, name, args, upstream)
         IN  op' = [kind |-> "dispatch", name |-> name, args |-> args,
                    result |-> r.result, handler |-> r.handler, backend |-> r.backend]
    /\ UNCHANGED <<phase, server, err, registry, logs, regs>>

Next == Construct \/ Register \/ Call

Spec == Init /\ [][Next]_vars

-----------------------------------------------------------------------------
(* Properties *)

LoadFails(source) == VersionLess(source.version, MinimumToolsVersion) \/ source.malformed

CallsOf(calls, what) == {i \in DOMAIN calls : calls[i] = what}

\* C1 (as claimed): in read-only mode no mutating tool of the catalog is ever bound
\* in the registry, and a dispatch of its name returns UnknownTool, whatever
\* addToolIfExists calls were made.
C1_ReadOnlyNeverBindsMutating ==
    server.readOnly =>
        /\ \A b \in registry : ~b.tool.mutating
        /\ (op.kind = "dispatch" /\ op.name \in DOMAIN server.tools
                /\ server.tools[op.name].mutating)
           => op.result = "UnknownTool"

\* C2: in read-only mode a dispatch reaches ProxyDockerRequest or
\* ProxyKubernetesRequest only when the arguments carry method GET; a proxy call
\* with any other method is not forwarded.
C2_ReadOnlyProxyForwardsOnlyGet ==
    (op.kind = "dispatch" /\ server.readOnly) =>
        /\ op.backend \in ProxyMethods => op.args.method = "GET"
        /\ (op.name \in ProxyNames /\ op.args.method # "GET") => op.backend = "none"

C2_Witness ==
    /\ op.kind = "dispatch" /\ server.readOnly
    /\ op.name \in ProxyNames /\ Bound(registry, op.name)
    /\ op.args = [fields |-> {"method", "path"}, method |-> "POST"]
    /\ op.backend = "none" /\ op.handler = NoHandler

\* C3: when the catalog fails to load (version below MinimumToolsVersion, or a
\* malformed entry) NewPortainerMCPServer returns an error and no server, and from
\* then on nothing is registered or dispatched.
C3_LoadFailureReturnsNoServer ==
    /\ (op.kind = "new" /\ LoadFails(op.source)) =>
           (server.nil /\ err # ErrNil /\ phase = "failed")
    /\ phase = "failed" => (server.nil /\ registry = {} /\ op.kind = "new")

C3_Witness ==
    /\ op.kind = "new" /\ VersionLess(op.source.version, MinimumToolsVersion)
    /\ ~op.source.malformed
    /\ server.nil /\ err = ErrLoad /\ registry = {}

\* C4: with the version check enabled, a server is returned only if GetVersion
\* succeeded and returned exactly SupportedPortainerVersion; otherwise construction
\* fails with an error and no server.
C4_VersionCheckedExactly ==
    (op.kind = "new" /\ ~op.opts.disableVersionCheck) =>
        /\ ~server.nil =>
               (op.backend.up /\ op.backend.version = SupportedPortainerVersion)
        /\ (~op.backend.up \/ op.backend.version # SupportedPortainerVersion) =>
               (server.nil /\ err # ErrNil /\ phase = "failed")

C4_Witness ==
    /\ op.kind = "new" /\ ~op.opts.disableVersionCheck /\ ~LoadFails(op.source)
    /\ op.backend.up /\ op.backend.version = "2.31.20"
    /\ server.nil /\ err = ErrUnsupported

\* C5: addToolIfExists with a name that is not in the catalog writes one log line
\* and changes nothing else: registry, server and error state stay as they were and
\* the server keeps running.
C5_AbsentNameOnlyLogs ==
    [][(op'.kind = "addToolIfExists" /\ op'.name \notin DOMAIN server.tools) =>
          /\ registry' = registry
          /\ server' = server
          /\ logs' = logs + 1
          /\ phase' = "running" /\ err' = err]_vars

C5_Witness ==
    /\ op.kind = "addToolIfExists" /\ op.name \notin DOMAIN server.tools
    /\ logs = 1
    /\ Cardinality(registry) = 2 /\ phase = "running"

\* C6: every name the registry binds, and so every name a dispatch reaches, is a name
\* of the catalog bound to its catalog definition and has exactly one binding.
C6_ReachableNamesBoundOnce ==
    /\ \A b \in registry :
          /\ b.name \in DOMAIN server.tools
          /\ b.tool = server.tools[b.name]
          /\ b.handler \in Handlers
          /\ Cardinality({c \in registry : c.name = b.name}) = 1
    /\ (op.kind = "dispatch" /\ op.result # "UnknownTool") =>
          /\ op.name \in DOMAIN server.tools
          /\ Cardinality({c \in registry : c.name = op.name}) = 1

C6_Witness ==
    /\ Cardinality(registry) = 4
    /\ regs["dockerProxy"] = "h2"
    /\ op.kind = "dispatch" /\ op.name = "dockerProxy" /\ op.result = "Success"

\* C7: a dispatch to a registered tool whose arguments do not match its inputSchema
\* returns InvalidArguments, and neither the handler nor the backend was called.
C7_ValidationPrecedesExecution ==
    (op.kind = "dispatch" /\ Bound(registry, op.name)
        /\ ~(server.tools[op.name].required \subseteq op.args.fields)) =>
        (op.result = "InvalidArguments" /\ op.handler = NoHandler /\ op.backend = "none")

C7_Witness ==
    /\ op.kind = "dispatch" /\ op.name = "createEnvironmentTag"
    /\ Bound(registry, op.name)
    /\ op.args.fields = {"path"}
    /\ op.result = "InvalidArguments" /\ op.handler = NoHandler

\* C8: with WithDisableVersionCheck(true) GetVersion is never called, and
\* construction succeeds for any backend, reachable or not, whenever the catalog loads.
C8_DisabledCheckSkipsBackend ==
    (op.kind = "new" /\ op.opts.disableVersionCheck) =>
        /\ CallsOf(op.calls, "GetVersion") = {}
        /\ ~LoadFails(op.source) => (~server.nil /\ err = ErrNil /\ phase = "running")

C8_Witness ==
    /\ op.kind = "new" /\ op.opts.disableVersionCheck
    /\ ~op.backend.up
    /\ ~server.nil /\ err = ErrNil /\ phase = "running"

\* C9: the last addToolIfExists call for a catalog name wins without an error: right
\* after a second call with another handler the name's only binding is the new
\* handler, and every dispatch that invokes a handler invokes the one of the last call.
C9_LastRegistrationWins ==
    /\ (op.kind = "addToolIfExists" /\ op.name \in DOMAIN server.tools) =>
          /\ Bound(registry, op.name)
          /\ \A b \in registry : b.name = op.name => b.handler = op.handler
          /\ phase = "running" /\ err = ErrNil
    /\ (op.kind = "dispatch" /\ op.handler # NoHandler) => op.handler = regs[op.name]

C9_Witness ==
    /\ op.kind = "addToolIfExists" /\ op.name \in DOMAIN server.tools
    /\ op.previous = "h1" /\ op.handler = "h2"
    /\ Binding(registry, op.name).handler = "h2"

\* C10: NewPortainerMCPServer loads the catalog before any backend contact:
\* GetVersion is called at most once and only after a successful load, and a failed
\* load is the error reported even when the backend would have failed too.
C10_LoadPrecedesBackend ==
    op.kind = "new" =>
        /\ Cardinality(CallsOf(op.calls, "GetVersion")) <= 1
        /\ \A i \in CallsOf(op.calls, "GetVersion") :
              /\ \E j \in CallsOf(op.calls, "LoadToolsFromYAML") : j < i
              /\ ~LoadFails(op.source)
        /\ \A i \in CallsOf(op.calls, "NewPortainerClient") :
              \E j \in CallsOf(op.calls, "LoadToolsFromYAML") : j < i
        /\ LoadFails(op.source) =>
              (err = ErrLoad /\ op.calls = <<"LoadToolsFromYAML">>)

C10_Witness ==
    /\ op.kind = "new" /\ LoadFails(op.source)
    /\ ~op.opts.disableVersionCheck /\ ~op.backend.up
    /\ err = ErrLoad /\ op.calls = <<"LoadToolsFromYAML">>

=============================================================================
